---- MODULE Spec2Model ----
(***************************************************************************)
(* Model of src/server.js: the in-memory session table, the socket.io     *)
(* event handlers and the HTTP endpoints that change the table.           *)
(*                                                                         *)
(* One action of the model is one run-to-completion handler of the Node   *)
(* event loop.  `outbox` holds the emits made by the handler that ran     *)
(* last, in the order of the emit calls, each with the set of sockets the *)
(* socket.io room resolution delivers it to.                               *)
(***************************************************************************)
EXTENDS Integers, Sequences, FiniteSets, TLC

VARIABLES
    sessions,   \* the Map `sessions`: session id -> session object
    sockets,    \* connected sockets: socket id -> [sessionId, role, rooms]
    opened,     \* number of sockets accepted so far (socket ids are fresh)
    outbox,     \* emits of the handler that ran last
    last,       \* which handler ran last, for whom, with what result
    crashed,    \* an exception escaped a handler: the process is gone
    net         \* the connections' two directions and the peers at their ends

vars == <<sessions, sockets, opened, outbox, last, crashed, net>>

\* JavaScript null and undefined.
Null == "null"
Undefined == "undefined"

(***************************************************************************)
(* Bounds of the model.                                                    *)
(***************************************************************************)
MaxConns == 2        \* sockets accepted in a run
MaxDrawings == 2     \* longest drawings log the model lets grow
MaxPage == 2         \* page numbers carried by page-change
MaxSends == 2        \* events the peers send in a run that follows the messages

SocketId(i) == "c" \o ToString(i)
Conns == {SocketId(i) : i \in 1..MaxConns}

\* Values uuidv4().slice(0, 8) can return.
SessionIds == {"s1", "s2"}

Roles == {"consultant", "customer"}

\* Opaque stroke payloads (drawingData / eraserData).
Ops == {"d1", "d2"}

\* An event sent without a payload object: handlers read `data.sessionId`.
NoData == [absent |-> TRUE]
HasPayload(data) == "sessionId" \in DOMAIN data

(***************************************************************************)
(* The session object of POST /api/create-session.                         *)
(***************************************************************************)
NewSession(sessionId) ==
    [id          |-> sessionId,
     fileUrl     |-> Null,
     fileType    |-> Null,
     currentPage |-> 1,
     totalPages  |-> 1,
     drawings    |-> <<>>,
     users       |-> [consultant |-> Null, customers |-> {}]]

\* sessions.get(id): the session, or nothing.
HasSession(sess, id) == id \in DOMAIN sess

(***************************************************************************)
(* socket.io rooms.  socket.join(room) adds the socket to the room; every *)
(* socket is also in the room named by its own id; a socket that has      *)
(* disconnected is in no room.                                             *)
(***************************************************************************)
InRoom(socks, room) ==
    {c \in DOMAIN socks : room = c \/ room \in socks[c].rooms}

Emit(event, to, payload) == [event |-> event, to |-> to, payload |-> payload]

\* io.to(room).emit(...)
ToRoom(socks, room, event, payload) == Emit(event, InRoom(socks, room), payload)

\* (a variant that does not leave the sender out)
ToOthers_WithSender(socks, c, room, event, payload) ==
    Emit(event, InRoom(socks, room), payload)

\* socket.to(room).emit(...): the room without the sender
ToOthers(socks, c, room, event, payload) ==
    Emit(event, InRoom(socks, room) \ {c}, payload)

\* socket.emit(...)
ToSelf(c, event, payload) == Emit(event, {c}, payload)

sendCustomerCount(sess, socks, sessionId) ==
    IF HasSession(sess, sessionId)
    THEN <<ToRoom(socks, sessionId, "customer-count",
                  [count |-> Cardinality(sess[sessionId].users.customers)])>>
    ELSE <<>>

\* The record of the handler that ran last: the event or endpoint, the socket
\* it ran for, the session id it named, how it ended, and the drawings the
\* named session held before it ran.
Ran(op, c, sid, res) == [op |-> op, conn |-> c, sid |-> sid, res |-> res, before |-> << >>]

(***************************************************************************)
(* The connections.  Most of the model looks at the emits of one handler  *)
(* in `outbox` and leaves the connections out: net = NoNet.  With the     *)
(* connections in, each socket has a queue of the events its peer has     *)
(* sent and the server has not handled yet (`wire`), and a queue of the   *)
(* emits delivered to it that its peer has not received yet (`inflight`); *)
(* both are first in, first out.  The peer's side: the number of events   *)
(* it has sent, its drawings log, and which events' relays it has         *)
(* received (`heard`).                                                     *)
(***************************************************************************)
NoNet == [on |-> FALSE]

Net0 ==
    [on       |-> TRUE,
     wire     |-> [c \in Conns |-> << >>],
     inflight |-> [c \in Conns |-> << >>],
     sent     |-> [c \in Conns |-> 0],
     replica  |-> [c \in Conns |-> << >>],
     heard    |-> [c \in Conns |-> << >>]]

\* The emits of `emits` that reach socket c, in the order of the emit calls,
\* each marked with the socket whose event caused it and that event's number.
Reaching(c, emits, from, n) ==
    LET mine == SelectSeq(emits, LAMBDA e : c \in e.to)
    IN  [i \in 1..Len(mine) |->
            [event |-> mine[i].event, payload |-> mine[i].payload,
             from |-> from, n |-> n]]

\* (a variant that puts a new message in front of the waiting ones)
Enqueue_InFront(queue, msgs) == msgs \o queue

\* emit: the messages join the socket's queue behind the waiting ones
Enqueue(queue, msgs) == queue \o msgs

Route(nt, emits, from, n) ==
    [nt EXCEPT !.inflight =
        [c \in Conns |-> Enqueue(nt.inflight[c], Reaching(c, emits, from, n))]]

\* What a handler does to the connections: a handler of a peer event has
\* taken the event off the front of its socket's wire; the emits of every
\* handler go to the sockets they are addressed to.
Carry(nt, ran, emits) ==
    IF ~nt.on THEN nt
    ELSE IF ran.op \in {"page-change", "draw-start", "drawing", "draw-end",
                        "eraser-start", "erasing", "eraser-end", "clear-drawings",
                        "undo-drawing", "pointer-move"}
    THEN Route([nt EXCEPT !.wire[ran.conn] = Tail(@)], emits,
               ran.conn, Head(nt.wire[ran.conn]).n)
    ELSE Route(nt, emits, Null, 0)

Carried == net' = Carry(net, last', outbox')

Init ==
    /\ sessions = << >>
    /\ sockets = << >>
    /\ opened = 0
    /\ outbox = << >>
    /\ last = Ran("start", Null, Null, "done")
    /\ crashed = FALSE
    /\ net = NoNet

\* An exception escapes the handler.  Nothing catches it: the process exits,
\* and the session table and every connection go with it.
Throw(op, c) ==
    /\ crashed' = TRUE
    /\ sessions' = << >>
    /\ sockets' = << >>
    /\ outbox' = << >>
    /\ last' = Ran(op, c, Undefined, "threw")
    /\ UNCHANGED <<opened, net>>

(***************************************************************************)
(* io.on('connection')                                                     *)
(***************************************************************************)
Connect(conns) ==
    /\ ~crashed
    /\ SocketId(opened + 1) \in conns
    /\ opened' = opened + 1
    /\ sockets' = [c \in DOMAIN sockets \cup {SocketId(opened + 1)} |->
                     IF c \in DOMAIN sockets THEN sockets[c]
                     ELSE [sessionId |-> Undefined, role |-> Undefined, rooms |-> {}]]
    /\ outbox' = << >>
    /\ last' = Ran("connection", SocketId(opened + 1), Null, "done")
    /\ UNCHANGED <<sessions, crashed, net>>

(***************************************************************************)
(* POST /api/create-session                                                *)
(***************************************************************************)
CreateSession(sessionId) ==
    /\ ~crashed
    /\ sessions' = [s \in DOMAIN sessions \cup {sessionId} |->
                      IF s = sessionId THEN NewSession(sessionId) ELSE sessions[s]]
    /\ outbox' = << >>
    /\ last' = Ran("create-session", Null, sessionId, "200")
    /\ UNCHANGED <<sockets, opened, crashed, net>>

(***************************************************************************)
(* socket.on('join-session')                                               *)
(***************************************************************************)
\* socket.join(sessionId); socket.sessionId = sessionId; socket.role = role
JoinSocket(sock, sessionId, role) ==
    [sessionId |-> sessionId, role |-> role, rooms |-> sock.rooms \cup {sessionId}]

\* (a variant in which an occupied consultant slot keeps its occupant)
JoinUsers_FirstWins(session, c, role) ==
    IF role = "consultant"
    THEN IF session.users.consultant = Null
         THEN [session EXCEPT !.users.consultant = c] ELSE session
    ELSE [session EXCEPT !.users.customers = @ \cup {c}]

\* the consultant slot or the customers set, by role
JoinUsers(session, c, role) ==
    IF role = "consultant"
    THEN [session EXCEPT !.users.consultant = c]
    ELSE [session EXCEPT !.users.customers = @ \cup {c}]

\* (a variant that replays no drawings)
SessionState_NoDrawings(session) ==
    [fileUrl     |-> session.fileUrl,
     fileType    |-> session.fileType,
     currentPage |-> session.currentPage,
     totalPages  |-> session.totalPages,
     drawings    |-> << >>]

\* the payload of 'session-state'
SessionState(session) ==
    [fileUrl     |-> session.fileUrl,
     fileType    |-> session.fileType,
     currentPage |-> session.currentPage,
     totalPages  |-> session.totalPages,
     drawings    |-> session.drawings]

\* the emits of a join that found its session, in order
JoinEmits(sess, socks, c, sessionId, role) ==
    (IF role = "consultant"
     THEN sendCustomerCount(sess, socks, sessionId)
     ELSE <<ToSelf(c, "session-state", SessionState(sess[sessionId]))>>
          \o sendCustomerCount(sess, socks, sessionId))
    \o <<ToOthers(socks, c, sessionId, "user-joined", [role |-> role])>>

\* (a variant that drops the join silently)
JoinNotFound_Silent(c) == << >>

\* the emit of a join that found no session
\* (the message text says that the session was not found)
JoinNotFound(c) == <<ToSelf(c, "error", [message |-> "session not found"])>>

JoinSession(c, data) ==
    /\ ~crashed
    /\ c \in DOMAIN sockets
    /\ IF ~HasPayload(data)
       THEN Throw("join-session", c)
       ELSE IF ~HasSession(sessions, data.sessionId)
       THEN /\ outbox' = JoinNotFound(c)
            /\ last' = Ran("join-session", c, data.sessionId, "not-found")
            /\ UNCHANGED <<sessions, sockets, opened, crashed>>
            /\ Carried
       ELSE LET sid == data.sessionId
                socks == [sockets EXCEPT ![c] = JoinSocket(@, sid, data.role)]
                sess == [sessions EXCEPT ![sid] = JoinUsers(@, c, data.role)]
            IN  /\ sockets' = socks
                /\ sessions' = sess
                /\ outbox' = JoinEmits(sess, socks, c, sid, data.role)
                /\ last' = Ran("join-session", c, sid, data.role)
                /\ UNCHANGED <<opened, crashed>>
                /\ Carried

(***************************************************************************)
(* socket.on('disconnect').  socket.io takes the socket out of all its    *)
(* rooms before the handler runs.                                          *)
(***************************************************************************)
\* (a variant that forgets customers.delete(socket.id))
LeaveUsers_KeepsCustomer(session, c, role) ==
    IF role = "consultant"
    THEN [session EXCEPT !.users.consultant = Null]
    ELSE session

LeaveUsers(session, c, role) ==
    IF role = "consultant"
    THEN [session EXCEPT !.users.consultant = Null]
    ELSE [session EXCEPT !.users.customers = @ \ {c}]

Disconnect(c) ==
    /\ ~crashed
    /\ c \in DOMAIN sockets
    /\ LET sock == sockets[c]
           sid == sock.sessionId
           socks == [d \in DOMAIN sockets \ {c} |-> sockets[d]]
           sess == IF HasSession(sessions, sid)
                   THEN [sessions EXCEPT ![sid] = LeaveUsers(@, c, sock.role)]
                   ELSE sessions
       IN  /\ sockets' = socks
           /\ sessions' = sess
           /\ outbox' =
                IF sid = Undefined THEN << >>
                ELSE (IF HasSession(sessions, sid) /\ sock.role # "consultant"
                      THEN sendCustomerCount(sess, socks, sid) ELSE << >>)
                     \o <<ToOthers(socks, c, sid, "user-left", [role |-> sock.role])>>
           /\ last' = Ran("disconnect", c, sid, "done")
           /\ UNCHANGED <<opened, crashed>>
           /\ Carried

(***************************************************************************)
(* Store effects of the peer events and of the uploads.                    *)
(***************************************************************************)
\* (a variant that keeps the drawings of the page left)
setPage_KeepsDrawings(session, page, totalPages) ==
    [session EXCEPT !.currentPage = page, !.totalPages = totalPages]

setPage(session, page, totalPages) ==
    [session EXCEPT !.currentPage = page, !.totalPages = totalPages, !.drawings = << >>]

setFile(session, fileUrl, fileType) ==
    [session EXCEPT !.fileUrl = fileUrl, !.fileType = fileType,
                    !.currentPage = 1, !.drawings = << >>]

\* session.drawings.push(op)
appendDrawing(session, op) == [session EXCEPT !.drawings = Append(@, op)]

clearDrawings(session) == [session EXCEPT !.drawings = << >>]

\* (a variant that removes the oldest entry: shift() for pop())
undoLastDrawing_Shift(session) ==
    IF Len(session.drawings) > 0
    THEN [session EXCEPT !.drawings = SubSeq(@, 2, Len(@))]
    ELSE session

\* (a variant without the length test that stores what pop() returned: an
\* empty log comes out holding undefined)
undoLastDrawing_Unguarded(session) ==
    IF Len(session.drawings) > 0
    THEN [session EXCEPT !.drawings = SubSeq(@, 1, Len(@) - 1)]
    ELSE [session EXCEPT !.drawings = <<Undefined>>]

\* if (session.drawings.length > 0) session.drawings.pop()
undoLastDrawing(session) ==
    IF Len(session.drawings) > 0
    THEN [session EXCEPT !.drawings = SubSeq(@, 1, Len(@) - 1)]
    ELSE session

Before(sessionId) ==
    IF HasSession(sessions, sessionId) THEN sessions[sessionId].drawings ELSE << >>

\* A handler that finished: its store effect, its emits, nothing else.
Done(op, c, sid, res, sess, emits) ==
    /\ sessions' = sess
    /\ outbox' = emits
    /\ last' = [Ran(op, c, sid, res) EXCEPT !.before = Before(sid)]
    /\ UNCHANGED <<sockets, opened, crashed>>
    /\ Carried

Handles(c) == ~crashed /\ c \in DOMAIN sockets

(***************************************************************************)
(* socket.on('page-change')                                                *)
(***************************************************************************)
PageChange(c, data) ==
    /\ Handles(c)
    /\ IF ~HasPayload(data) THEN Throw("page-change", c)
       ELSE IF HasSession(sessions, data.sessionId)
       THEN Done("page-change", c, data.sessionId, "done",
                 [sessions EXCEPT ![data.sessionId] = setPage(@, data.page, data.totalPages)],
                 <<ToOthers(sockets, c, data.sessionId, "page-changed",
                            [page |-> data.page, totalPages |-> data.totalPages])>>)
       ELSE Done("page-change", c, data.sessionId, "done", sessions, << >>)

(***************************************************************************)
(* The pass-through events: draw-start, drawing, eraser-start, erasing,   *)
(* pointer-move.  socket.to(data.sessionId).emit(<out>, data)              *)
(***************************************************************************)
Relay(op, out, c, data) ==
    /\ Handles(c)
    /\ IF ~HasPayload(data) THEN Throw(op, c)
       ELSE Done(op, c, data.sessionId, "done", sessions,
                 <<ToOthers(sockets, c, data.sessionId, out, data)>>)

DrawStart(c, data) == Relay("draw-start", "draw-started", c, data)
Drawing(c, data) == Relay("drawing", "drawing-update", c, data)
EraserStart(c, data) == Relay("eraser-start", "eraser-started", c, data)
Erasing(c, data) == Relay("erasing", "erasing-update", c, data)
PointerMove(c, data) == Relay("pointer-move", "pointer-moved", c, data)

(***************************************************************************)
(* socket.on('draw-end') and socket.on('eraser-end')                       *)
(***************************************************************************)
\* (a variant without the test of the payload: it pushes undefined)
Commit_Untested(sess, sessionId, payload) ==
    IF HasSession(sess, sessionId)
    THEN [sess EXCEPT ![sessionId] = appendDrawing(@, payload)]
    ELSE sess

\* if (session && payload) session.drawings.push(payload)
Commit(sess, sessionId, payload) ==
    IF HasSession(sess, sessionId) /\ payload # Undefined
    THEN [sess EXCEPT ![sessionId] = appendDrawing(@, payload)]
    ELSE sess

\* The model lets a log grow to MaxDrawings entries.
Fits(sessionId, payload) ==
    HasSession(sessions, sessionId) /\ payload # Undefined
        => Len(sessions[sessionId].drawings) < MaxDrawings

DrawEnd(c, data) ==
    /\ Handles(c)
    /\ IF ~HasPayload(data) THEN Throw("draw-end", c)
       ELSE /\ Fits(data.sessionId, data.drawingData)
            /\ Done("draw-end", c, data.sessionId, "done",
                    Commit(sessions, data.sessionId, data.drawingData),
                    <<ToOthers(sockets, c, data.sessionId, "draw-ended", data)>>)

EraserEnd(c, data) ==
    /\ Handles(c)
    /\ IF ~HasPayload(data) THEN Throw("eraser-end", c)
       ELSE /\ Fits(data.sessionId, data.eraserData)
            /\ Done("eraser-end", c, data.sessionId, "done",
                    Commit(sessions, data.sessionId, data.eraserData),
                    <<ToOthers(sockets, c, data.sessionId, "eraser-ended", data)>>)

(***************************************************************************)
(* socket.on('clear-drawings') and socket.on('undo-drawing')               *)
(***************************************************************************)
ClearDrawings(c, data) ==
    /\ Handles(c)
    /\ IF ~HasPayload(data) THEN Throw("clear-drawings", c)
       ELSE Done("clear-drawings", c, data.sessionId, "done",
                 IF HasSession(sessions, data.sessionId)
                 THEN [sessions EXCEPT ![data.sessionId] = clearDrawings(@)]
                 ELSE sessions,
                 <<ToOthers(sockets, c, data.sessionId, "drawings-cleared", NoData)>>)

UndoDrawing(c, data) ==
    /\ Handles(c)
    /\ IF ~HasPayload(data) THEN Throw("undo-drawing", c)
       ELSE Done("undo-drawing", c, data.sessionId, "done",
                 IF HasSession(sessions, data.sessionId)
                 THEN [sessions EXCEPT ![data.sessionId] = undoLastDrawing(@)]
                 ELSE sessions,
                 <<ToOthers(sockets, c, data.sessionId, "drawing-undone", NoData)>>)

(***************************************************************************)
(* POST /api/upload-file/:sessionId and POST /api/upload-pdf/:sessionId    *)
(***************************************************************************)
\* multer found no file in the request
NoFile == [absent |-> TRUE]
HasFile(file) == "filename" \in DOMAIN file

\* `${protocol}://${host}/uploads/${req.file.filename}`
FileUrl(file) == "http://host/uploads/" \o file.filename

\* req.body.fileType || (mimetype === 'application/pdf' ? 'pdf' : 'image')
FileType(bodyFileType, file) ==
    IF bodyFileType # Undefined THEN bodyFileType
    ELSE IF file.mimetype = "application/pdf" THEN "pdf" ELSE "image"

\* An error response: nothing stored, nothing emitted.
Responded(op, sessionId, status) == Done(op, Null, sessionId, status, sessions, << >>)

UploadFile(sessionId, file, bodyFileType) ==
    /\ ~crashed
    /\ IF ~HasSession(sessions, sessionId) THEN Responded("upload-file", sessionId, "404")
       ELSE IF ~HasFile(file) THEN Responded("upload-file", sessionId, "400")
       ELSE LET fileUrl == FileUrl(file)
                fileType == FileType(bodyFileType, file)
            IN  Done("upload-file", Null, sessionId, "200",
                     [sessions EXCEPT ![sessionId] = setFile(@, fileUrl, fileType)],
                     <<ToRoom(sockets, sessionId, "file-loaded",
                              [fileUrl |-> fileUrl, fileType |-> fileType])>>)

UploadPdf(sessionId, file) ==
    /\ ~crashed
    /\ IF ~HasSession(sessions, sessionId) THEN Responded("upload-pdf", sessionId, "404")
       ELSE IF ~HasFile(file) THEN Responded("upload-pdf", sessionId, "400")
       ELSE LET pdfUrl == FileUrl(file)
            IN  Done("upload-pdf", Null, sessionId, "200",
                     [sessions EXCEPT ![sessionId] = setFile(@, pdfUrl, "pdf")],
                     <<ToRoom(sockets, sessionId, "pdf-loaded", [pdfUrl |-> pdfUrl])>>)

(***************************************************************************)
(* Inputs and specifications.                                              *)
(***************************************************************************)
JoinData(ids) == {NoData} \cup [sessionId : ids, role : Roles]
RelayData(ids, bodies) == {NoData} \cup [sessionId : ids, body : bodies]
PageData(ids, pages) == {NoData} \cup [sessionId : ids, page : pages, totalPages : pages]
DrawEndData(ids, ops) == {NoData} \cup [sessionId : ids, drawingData : ops \cup {Undefined}]
EraserEndData(ids, ops) == {NoData} \cup [sessionId : ids, eraserData : ops \cup {Undefined}]
IdData(ids) == {NoData} \cup [sessionId : ids]
Files(names, types) == {NoFile} \cup [filename : names, mimetype : types]

\* The steps of the server, their inputs drawn from the sets of `in`:
\*   conns  the socket ids the run accepts
\*   ids    values of uuidv4().slice(0, 8), and session ids named by requests
\*   rooms  what a peer puts in data.sessionId
\*   pages, ops, bodies, files, mimes, types   payload values

\* connections, session creation, join and leave
PresenceStep(in) ==
    \/ Connect(in.conns)
    \/ \E sid \in in.ids : CreateSession(sid)
    \/ \E c \in in.conns :
        \/ \E data \in JoinData(in.ids) : JoinSession(c, data)
        \/ Disconnect(c)

\* the handlers that write the session's file, page and drawings
StoreStep(in) ==
    \/ \E c \in in.conns :
        \/ \E data \in PageData(in.rooms, in.pages) : PageChange(c, data)
        \/ \E data \in DrawEndData(in.rooms, in.ops) : DrawEnd(c, data)
        \/ \E data \in EraserEndData(in.rooms, in.ops) : EraserEnd(c, data)
        \/ \E data \in IdData(in.rooms) :
            \/ ClearDrawings(c, data)
            \/ UndoDrawing(c, data)
    \/ \E sid \in in.ids, file \in Files(in.files, in.mimes) :
        \/ \E bodyFileType \in in.types : UploadFile(sid, file, bodyFileType)
        \/ UploadPdf(sid, file)

\* the pass-through handlers
RelayStep(in) ==
    \E c \in in.conns, data \in RelayData(in.rooms, in.bodies) :
        \/ DrawStart(c, data)
        \/ Drawing(c, data)
        \/ EraserStart(c, data)
        \/ Erasing(c, data)
        \/ PointerMove(c, data)

\* Every handler; one session id; as data.sessionId that id or the id of the
\* first socket; one value of each payload, end events without a stroke.
Inputs ==
    [conns |-> Conns, ids |-> {"s1"}, rooms |-> {"s1", SocketId(1)},
     pages |-> {MaxPage}, ops |-> {}, bodies |-> {"p"},
     files |-> {"f1"}, mimes |-> {"application/pdf"}, types |-> {Undefined}]

Next == PresenceStep(Inputs) \/ StoreStep(Inputs) \/ RelayStep(Inputs)

Spec == Init /\ [][Next]_vars

\* Presence alone, over two session ids.
PresenceInputs == [conns |-> Conns, ids |-> SessionIds]

NextPresence == PresenceStep(PresenceInputs)

SpecPresence == Init /\ [][NextPresence]_vars

\* Presence and the store, the payload values varied.
StoreInputs ==
    [conns |-> {SocketId(1), SocketId(2)}, ids |-> {"s1"}, rooms |-> {"s1"},
     pages |-> {1, MaxPage}, ops |-> Ops,
     files |-> {"f1", "f2"}, mimes |-> {"application/pdf", "image/png"},
     types |-> {Undefined, "pdf", "image"}]

NextStore == PresenceStep(StoreInputs) \/ StoreStep(StoreInputs)

SpecStore == Init /\ [][NextStore]_vars

\* Every handler again, with strokes, and with payload values no client of
\* the repository sends but any peer can: page 0, a fileType field "video".
PayloadInputs ==
    [conns |-> {SocketId(1), SocketId(2)}, ids |-> {"s1"}, rooms |-> {"s1"},
     pages |-> {0, 1}, ops |-> {"d1"}, bodies |-> {"p"},
     files |-> {"f1"}, mimes |-> {"image/png"}, types |-> {Undefined, "video"}]

NextPayload ==
    PresenceStep(PayloadInputs) \/ StoreStep(PayloadInputs) \/ RelayStep(PayloadInputs)

SpecPayload == Init /\ [][NextPayload]_vars

(***************************************************************************)
(* The peers.  A peer keeps a log of the drawings it shows: what the       *)
(* session-state it was sent held, changed by each event it sends, when it *)
(* sends it, and by each relayed event it receives, when it receives it.   *)
(***************************************************************************)
\* The stroke of the n-th event of the peer of socket c.
Stroke(c, n) == c \o "." \o ToString(n)

WithoutLast(log) == IF Len(log) > 0 THEN SubSeq(log, 1, Len(log) - 1) ELSE log

WithStroke(log, stroke) == IF stroke = Undefined THEN log ELSE Append(log, stroke)

\* The peer's log after it has sent event op.
LocalApply(log, op, data) ==
    CASE op = "draw-end" -> WithStroke(log, data.drawingData)
      [] op = "eraser-end" -> WithStroke(log, data.eraserData)
      [] op = "undo-drawing" -> WithoutLast(log)
      [] op \in {"clear-drawings", "page-change"} -> << >>
      [] OTHER -> log

\* The peer's log after it has received an event.
RemoteApply(log, event, payload) ==
    CASE event = "session-state" -> payload.drawings
      [] event = "draw-ended" -> WithStroke(log, payload.drawingData)
      [] event = "eraser-ended" -> WithStroke(log, payload.eraserData)
      [] event = "drawing-undone" -> WithoutLast(log)
      [] event \in {"drawings-cleared", "page-changed", "file-loaded"} -> << >>
      [] OTHER -> log

\* The peer of c has received the session-state of its join, if one was sent.
Ready(c) == \A i \in DOMAIN net.inflight[c] : net.inflight[c][i].event # "session-state"

RECURSIVE Sum(_, _)
Sum(f, S) == IF S = {} THEN 0 ELSE LET x == CHOOSE y \in S : TRUE IN f[x] + Sum(f, S \ {x})

\* The events the peers have sent so far.
SentInAll == Sum(net.sent, DOMAIN net.sent)

\* The peer of socket c emits event op for the session it joined.
PeerSends(c, op, data) ==
    /\ net.on
    /\ ~crashed
    /\ c \in DOMAIN sockets
    /\ sockets[c].sessionId = data.sessionId
    /\ Ready(c)
    /\ SentInAll < MaxSends
    /\ net' = [net EXCEPT !.sent[c] = @ + 1,
                          !.wire[c] = Append(@, [op |-> op, data |-> data, n |-> net.sent[c] + 1]),
                          !.replica[c] = LocalApply(@, op, data)]
    /\ UNCHANGED <<sessions, sockets, opened, outbox, last, crashed>>

\* The peer of socket c receives the message at the front of its queue.
PeerReceives(c) ==
    /\ net.on
    /\ net.inflight[c] # << >>
    /\ LET m == Head(net.inflight[c])
       IN  net' = [net EXCEPT !.inflight[c] = Tail(@),
                              !.replica[c] = RemoteApply(@, m.event, m.payload),
                              !.heard[c] = IF m.from = Null THEN @
                                           ELSE Append(@, [from |-> m.from, n |-> m.n])]
    /\ UNCHANGED <<sessions, sockets, opened, outbox, last, crashed>>

\* socket.io hands the event at the front of the wire of c to its handler.
Handle(c) ==
    /\ net.on
    /\ c \in DOMAIN sockets
    /\ net.wire[c] # << >>
    /\ LET m == Head(net.wire[c])
       IN  \/ m.op = "page-change" /\ PageChange(c, m.data)
           \/ m.op = "draw-start" /\ DrawStart(c, m.data)
           \/ m.op = "draw-end" /\ DrawEnd(c, m.data)
           \/ m.op = "undo-drawing" /\ UndoDrawing(c, m.data)

\* One session, which every socket joins once; the peers send page-change,
\* draw-start, draw-end with a stroke of their own, and undo-drawing.
TransportConns == {SocketId(1), SocketId(2)}

PeerStep ==
    \E c \in TransportConns :
        \/ PeerSends(c, "draw-start", [sessionId |-> "s1", body |-> "p"])
        \/ PeerSends(c, "draw-end",
                     [sessionId |-> "s1", drawingData |-> Stroke(c, net.sent[c] + 1)])
        \/ PeerSends(c, "undo-drawing", [sessionId |-> "s1"])
        \/ PeerSends(c, "page-change",
                     [sessionId |-> "s1", page |-> MaxPage, totalPages |-> MaxPage])
        \/ Handle(c)
        \/ PeerReceives(c)

InitTransport ==
    /\ sessions = << >>
    /\ sockets = << >>
    /\ opened = 0
    /\ outbox = << >>
    /\ last = Ran("start", Null, Null, "done")
    /\ crashed = FALSE
    /\ net = Net0

NextTransport ==
    \/ Connect(TransportConns)
    \/ ~HasSession(sessions, "s1") /\ CreateSession("s1")
    \/ \E c \in TransportConns, role \in Roles :
        /\ c \in DOMAIN sockets
        /\ sockets[c].sessionId = Undefined
        /\ HasSession(sessions, "s1")
        /\ JoinSession(c, [sessionId |-> "s1", role |-> role])
    \/ PeerStep

SpecTransport == InitTransport /\ [][NextTransport]_vars

(***************************************************************************)
(* Properties.                                                             *)
(***************************************************************************)
\* The sockets an emit of the last handler was delivered to.
Delivered == UNION {outbox[i].to : i \in DOMAIN outbox}

EmitsOf(event) == {i \in DOMAIN outbox : outbox[i].event = event}

\* The sockets that joined the room of a session and are still connected.
Members(sid) == {c \in DOMAIN sockets : sid \in sockets[c].rooms}

Customers(sid) == sessions[sid].users.customers

UploadOps == {"upload-file", "upload-pdf"}

\* The peer events and the event each one is relayed as.
PeerOut ==
    [op \in {"page-change", "draw-start", "drawing", "draw-end", "eraser-start",
             "erasing", "eraser-end", "clear-drawings", "undo-drawing", "pointer-move"} |->
        CASE op = "page-change" -> "page-changed"
          [] op = "draw-start" -> "draw-started"
          [] op = "drawing" -> "drawing-update"
          [] op = "draw-end" -> "draw-ended"
          [] op = "eraser-start" -> "eraser-started"
          [] op = "erasing" -> "erasing-update"
          [] op = "eraser-end" -> "eraser-ended"
          [] op = "clear-drawings" -> "drawings-cleared"
          [] op = "undo-drawing" -> "drawing-undone"
          [] op = "pointer-move" -> "pointer-moved"]

PeerOps == DOMAIN PeerOut

\* The last handler was a page-change or an upload that went through.
PageOrFileSet ==
    /\ last.sid \in DOMAIN sessions
    /\ \/ last.op = "page-change" /\ last.res = "done"
       \/ last.op \in UploadOps /\ last.res = "200"

\* C1: right after a page-change or a successful upload (either endpoint) the
\* session's drawings are empty, and after an upload currentPage is 1,
\* whatever the log held before.
C1_DrawingsClearedByPageAndFile ==
    PageOrFileSet =>
        /\ sessions[last.sid].drawings = << >>
        /\ last.op \in UploadOps => sessions[last.sid].currentPage = 1

\* An upload through the older endpoint onto a session whose log was full.
C1_Witness ==
    /\ PageOrFileSet
    /\ last.op = "upload-pdf"
    /\ Len(last.before) = MaxDrawings
    /\ sessions[last.sid].drawings = << >>

\* C2: a customer join to an existing session emits exactly one session-state,
\* to the joining socket alone, carrying the session's stored file, page and
\* drawings; a consultant join emits no session-state.
C2_SessionStateOnCustomerJoinOnly ==
    last.op = "join-session" /\ last.res \in Roles =>
        IF last.res = "customer"
        THEN /\ Cardinality(EmitsOf("session-state")) = 1
             /\ \A i \in EmitsOf("session-state") :
                    /\ outbox[i].to = {last.conn}
                    /\ outbox[i].payload =
                         [fileUrl     |-> sessions[last.sid].fileUrl,
                          fileType    |-> sessions[last.sid].fileType,
                          currentPage |-> sessions[last.sid].currentPage,
                          totalPages  |-> sessions[last.sid].totalPages,
                          drawings    |-> sessions[last.sid].drawings]
        ELSE EmitsOf("session-state") = {}

\* A customer joins a session that has a file, is on page 2 and holds drawings,
\* while another socket is in the room.
C2_Witness ==
    /\ last.op = "join-session"
    /\ last.res = "customer"
    /\ sessions[last.sid].fileUrl # Null
    /\ sessions[last.sid].currentPage = 2
    /\ Len(sessions[last.sid].drawings) = 2
    /\ Members(last.sid) # {last.conn}
    /\ EmitsOf("session-state") # {}

\* The customers of a session after a step that leaves the session in place.
JoinsAsCustomer(sid) ==
    /\ last'.op = "join-session"
    /\ last'.res = "customer"
    /\ last'.sid = sid
    /\ last'.conn \notin Customers(sid)

CustomerLeaves(sid) ==
    /\ last'.op = "disconnect"
    /\ last'.conn \in Customers(sid)

\* C3: the customer count of a session is the number of customer joins minus
\* the number of customer leaves: it starts at 0, the join of a socket that is
\* not yet a customer of the session adds one, the disconnect of a customer of
\* the session takes one away, and no other step changes it.
C3_CountIsJoinsMinusLeaves ==
    [][~crashed' =>
        \A sid \in DOMAIN sessions :
            Cardinality(sessions'[sid].users.customers) =
                Cardinality(Customers(sid))
                + (IF JoinsAsCustomer(sid) THEN 1 ELSE 0)
                - (IF CustomerLeaves(sid) THEN 1 ELSE 0)]_vars

\* C4: the customers set of a session holds ids of connected sockets only: no
\* id of a disconnected socket remains in it, however often a socket joined.
\* (The claim's other half, that no connected customer is missing, is not
\* needed to decide it.)
C4_CustomersAreConnected ==
    \A sid \in DOMAIN sessions : Customers(sid) \subseteq DOMAIN sockets

\* A join-session that names no session of the table.
JoinOfUnknown ==
    /\ last'.op = "join-session"
    /\ last'.res # "threw"
    /\ last'.sid \notin DOMAIN sessions

\* C5: a join-session naming a session id that is not in the table emits one
\* 'error' to the joining socket and nothing else, and registers nothing: the
\* sockets' rooms, session ids and roles and the sessions' users are unchanged.
C5_JoinUnknownSession ==
    [][JoinOfUnknown =>
        /\ outbox' = <<[event |-> "error", to |-> {last'.conn},
                        payload |-> [message |-> "session not found"]]>>
        /\ sockets' = sockets
        /\ sessions' = sessions
        /\ ~crashed']_vars

\* A join of an unknown session while a session exists and a socket is in it.
C5_Witness ==
    /\ last.op = "join-session"
    /\ last.res = "not-found"
    /\ \E sid \in DOMAIN sessions : Members(sid) # {}
    /\ sockets[last.conn].sessionId = Undefined
    /\ Delivered = {last.conn}

\* An event other than join-session, or an upload, that names no session.
OtherOfUnknown ==
    /\ last'.op \in PeerOps \cup UploadOps
    /\ last'.res # "threw"
    /\ last'.sid \notin DOMAIN sessions

\* C6: an event other than join-session that names a session id not in the
\* table raises no error, changes no session and is delivered to no socket.
C6_UnknownSessionDropped ==
    [][OtherOfUnknown =>
        /\ sessions' = sessions
        /\ ~crashed'
        /\ UNION {outbox'[i].to : i \in DOMAIN outbox'} = {}]_vars

\* The last handler ran a peer event that named a session of the table.
PeerEventOfSession ==
    /\ last.op \in PeerOps
    /\ last.res = "done"
    /\ last.sid \in DOMAIN sessions

\* C7: a peer event naming an existing session is relayed, as its outbound
\* event, to exactly the sockets of the session's room other than the sender;
\* and of the events a socket's own event causes, only customer-count comes
\* back to that socket as part of a broadcast, and it reaches the whole room.
C7_RelayToOthersOnly ==
    /\ PeerEventOfSession =>
        /\ Len(outbox) = 1
        /\ outbox[1].event = PeerOut[last.op]
        /\ outbox[1].to = Members(last.sid) \ {last.conn}
    /\ \A i \in DOMAIN outbox :
        /\ (last.conn \in outbox[i].to /\ outbox[i].to # {last.conn})
               => outbox[i].event = "customer-count"
        /\ (outbox[i].event = "customer-count" /\ last.op \in {"join-session", "disconnect"})
               => outbox[i].to = Members(last.sid)

\* A member of a room commits a stroke while another socket is in the room.
C7_Witness ==
    /\ PeerEventOfSession
    /\ last.op = "draw-end"
    /\ last.conn \in Members(last.sid)
    /\ Delivered # {}

\* A socket whose own record says consultant of sid while the slot of sid
\* holds another socket's id.
Displaced(c, sid) ==
    /\ sid \in DOMAIN sessions
    /\ sockets[c].sessionId = sid
    /\ sockets[c].role = "consultant"
    /\ sessions[sid].users.consultant \notin {c, Null}

\* C8: after a second socket joins a session as consultant the slot holds the
\* second socket's id, and the first socket goes on as a member of the room:
\* it is still connected and every broadcast of the session reaches it.
C8_SecondConsultantTakesSlot ==
    /\ last.op = "join-session" /\ last.res = "consultant"
           => sessions[last.sid].users.consultant = last.conn
    /\ \A c \in DOMAIN sockets, sid \in DOMAIN sessions :
           Displaced(c, sid) =>
               /\ c \in Members(sid)
               /\ \A i \in DOMAIN outbox :
                      (last.sid = sid /\ last.conn # c
                       /\ outbox[i].event \notin {"session-state", "error"})
                          => c \in outbox[i].to

\* The second consultant has just joined; the first one got its user-joined.
C8_Witness ==
    /\ last.op = "join-session"
    /\ last.res = "consultant"
    /\ \E c \in DOMAIN sockets :
           /\ c # last.conn
           /\ Displaced(c, last.sid)
           /\ \E i \in EmitsOf("user-joined") : c \in outbox[i].to

\* C9: create-session never returns an id that names a session of the table,
\* and never replaces or resets a session that exists.
C9_CreateSessionIsFresh ==
    [][last'.op = "create-session" =>
        /\ last'.sid \notin DOMAIN sessions
        /\ \A sid \in DOMAIN sessions : sessions'[sid] = sessions[sid]]_vars

\* The last handler was a draw-end that appended its payload.
DrawEndAppended ==
    /\ last.op = "draw-end"
    /\ last.res = "done"
    /\ last.sid \in DOMAIN sessions
    /\ outbox[1].payload.drawingData # Undefined

\* C10: a draw-end that appends its payload to drawings D, followed at once by
\* an undo-drawing for the same session, leaves drawings equal to D.
C10_DrawEndThenUndo ==
    [][(DrawEndAppended /\ last'.op = "undo-drawing" /\ last'.res = "done"
        /\ last'.sid = last.sid)
           => sessions'[last.sid].drawings = last.before]_vars

\* An undo-drawing that ran on a full log of two different strokes.
C10_Witness ==
    /\ last.op = "undo-drawing"
    /\ last.res = "done"
    /\ last.sid \in DOMAIN sessions
    /\ Len(last.before) = MaxDrawings
    /\ last.before[1] # last.before[Len(last.before)]
    /\ sessions[last.sid].drawings = SubSeq(last.before, 1, Len(last.before) - 1)

\* An undo-drawing for a session of the table whose drawings are empty.
UndoOfEmpty ==
    /\ last'.op = "undo-drawing"
    /\ last'.res = "done"
    /\ last'.sid \in DOMAIN sessions
    /\ sessions[last'.sid].drawings = << >>

\* C11: an undo-drawing for a session whose drawings are empty changes nothing
\* in the store: the drawings stay empty, every other field of every session
\* keeps its value, no error is raised or emitted; and the undo-drawing that
\* follows it finds the same empty log and leaves the same store.
C11_UndoOfEmptyIsNoOp ==
    [][UndoOfEmpty =>
        /\ sessions' = sessions
        /\ sessions'[last'.sid].drawings = << >>
        /\ ~crashed'
        /\ \A i \in DOMAIN outbox' : outbox'[i].event # "error"]_vars

\* An undo-drawing found the log empty, in a session that has a file and is on
\* page 2.
C11_Witness ==
    /\ last.op = "undo-drawing"
    /\ last.res = "done"
    /\ last.sid \in DOMAIN sessions
    /\ last.before = << >>
    /\ sessions[last.sid].drawings = << >>
    /\ sessions[last.sid].fileUrl # Null
    /\ sessions[last.sid].currentPage = 2

\* The sessions in whose customers set or consultant slot the id c appears.
HeldBy(c) ==
    {sid \in DOMAIN sessions :
        c \in Customers(sid) \/ sessions[sid].users.consultant = c}

\* The ids of all sockets the run has accepted, connected or not.
Accepted == {SocketId(i) : i \in 1..opened}

\* C12: what a socket's own record says agrees with the sessions' users: a
\* socket recorded as customer of S is in no customers set or consultant slot
\* of another session; a socket recorded as consultant is in no customers set;
\* a socket with no recorded session, and an id that is no longer connected,
\* is in no set and no slot.  (That a socket recorded as customer of S is in
\* the customers of S is the claim's too; it is not needed to decide it.)
C12_ReverseIndexAgrees ==
    \A c \in Accepted :
        IF c \in DOMAIN sockets /\ sockets[c].sessionId # Undefined
        THEN IF sockets[c].role = "customer"
             THEN HeldBy(c) \subseteq {sockets[c].sessionId}
             ELSE \A sid \in DOMAIN sessions : c \notin Customers(sid)
        ELSE HeldBy(c) = {}

\* C13: when a socket whose record names session S disconnects, one user-left
\* carrying its role goes to the sockets that remain in the room of S and to
\* no other socket; if its role was customer, one customer-count goes to the
\* same sockets before it, its count the size of the customers of S after the
\* socket's id has been removed; nothing else is emitted.  The disconnect of
\* a socket that never joined changes no session and emits nothing.  (S is
\* the session of the socket's record: the one its latest join named.)
C13_DisconnectNotifiesSession ==
    [][last'.op = "disconnect" =>
        LET c == last'.conn
            sid == sockets[c].sessionId
            role == sockets[c].role
            room == {d \in DOMAIN sockets' : sid \in sockets'[d].rooms}
            left == [event |-> "user-left", to |-> room, payload |-> [role |-> role]]
            count == [event |-> "customer-count", to |-> room,
                      payload |-> [count |-> Cardinality(sessions'[sid].users.customers)]]
        IN  /\ c \notin DOMAIN sockets'
            /\ \A d \in DOMAIN sockets' : sockets'[d] = sockets[d]
            /\ IF sid = Undefined
               THEN sessions' = sessions /\ outbox' = << >>
               ELSE IF role = "customer"
               THEN /\ c \notin sessions'[sid].users.customers
                    /\ outbox' = <<count, left>>
               ELSE outbox' = <<left>>]_vars

\* A customer of s1 disconnected while another customer of s1 stayed: the one
\* that stayed got a customer-count of 1 and the user-left.
C13_Witness ==
    /\ last.op = "disconnect"
    /\ last.sid = "s1"
    /\ Customers("s1") # {}
    /\ Customers("s1") \subseteq Members("s1")
    /\ Len(outbox) = 2
    /\ outbox[1].event = "customer-count"
    /\ outbox[1].payload.count = 1
    /\ outbox[1].to = Customers("s1")
    /\ outbox[2] = [event |-> "user-left", to |-> Customers("s1"),
                    payload |-> [role |-> "customer"]]

\* A peer event that came with no payload object: it named no session.
PeerEventWithoutPayload ==
    /\ last'.op \in PeerOps
    /\ last'.sid = Undefined

\* C14: a peer event whose payload is missing is dropped in silence: no
\* session and no socket changes, nothing is delivered to any socket, and no
\* error is raised.
C14_MalformedEventDropped ==
    [][PeerEventWithoutPayload =>
        /\ ~crashed'
        /\ sessions' = sessions
        /\ sockets' = sockets
        /\ outbox' = << >>]_vars

\* C15: an upload that goes through, on either endpoint, stores a file url and
\* a file type in the session and emits one file-loaded, carrying exactly the
\* stored url and type, to the sockets of the session's room.  (The claim
\* goes on to customers that join later; that half is not needed to decide it.)
C15_UploadEmitsFileLoaded ==
    (last.op \in UploadOps /\ last.res = "200") =>
        /\ sessions[last.sid].fileUrl # Null
        /\ sessions[last.sid].fileType # Null
        /\ outbox = <<[event |-> "file-loaded", to |-> Members(last.sid),
                       payload |-> [fileUrl |-> sessions[last.sid].fileUrl,
                                    fileType |-> sessions[last.sid].fileType]]>>

\* C16: in every session fileType is null, "pdf" or "image"; fileUrl is null
\* exactly when fileType is; currentPage and totalPages are integers of at
\* least 1, whatever the page-change events and the uploads carried.
C16_FieldsWellTyped ==
    \A sid \in DOMAIN sessions :
        /\ sessions[sid].fileType \in {Null, "pdf", "image"}
        /\ sessions[sid].fileUrl = Null <=> sessions[sid].fileType = Null
        /\ sessions[sid].currentPage \in Nat \ {0}
        /\ sessions[sid].totalPages \in Nat \ {0}

RelayOps == {"draw-start", "drawing", "eraser-start", "erasing", "pointer-move"}

\* The stroke an end event carried: drawingData of draw-end, eraserData of
\* eraser-end, as the handler passed the payload on.
StrokeOf(op, payload) ==
    IF op = "draw-end" THEN payload.drawingData ELSE payload.eraserData

\* The drawings of session sid after an end event that named it.
AfterEnd(sid, op, payload) ==
    IF StrokeOf(op, payload) = Undefined
    THEN sessions[sid].drawings
    ELSE Append(sessions[sid].drawings, StrokeOf(op, payload))

\* C18: of the stroke events only the end events write the store.  draw-start,
\* drawing, eraser-start, erasing and pointer-move leave every session as it
\* was.  A draw-end or eraser-end that names a session appends its drawingData
\* or eraserData as the new last drawing when it carries one and leaves the
\* drawings as they were when it carries none, and is relayed either way; it
\* changes nothing else.  No peer event but page-change changes a session's
\* fileUrl, fileType, currentPage or totalPages.
C18_OnlyEndEventsCommit ==
    [][(last'.op \in PeerOps /\ last'.res = "done") =>
        /\ DOMAIN sessions' = DOMAIN sessions
        /\ last'.op \in RelayOps => sessions' = sessions
        /\ last'.op \in {"draw-end", "eraser-end"} =>
            /\ Len(outbox') = 1
            /\ outbox'[1].event = PeerOut[last'.op]
            /\ \A sid \in DOMAIN sessions :
                  sessions'[sid] =
                      IF sid = last'.sid
                      THEN [sessions[sid] EXCEPT
                                !.drawings = AfterEnd(sid, last'.op, outbox'[1].payload)]
                      ELSE sessions[sid]
        /\ last'.op # "page-change" =>
            \A sid \in DOMAIN sessions :
                /\ sessions'[sid].fileUrl = sessions[sid].fileUrl
                /\ sessions'[sid].fileType = sessions[sid].fileType
                /\ sessions'[sid].currentPage = sessions[sid].currentPage
                /\ sessions'[sid].totalPages = sessions[sid].totalPages]_vars

\* An eraser-end put its stroke behind the one the log held, in a session that
\* has a file, and was relayed to the other socket of the room.
C18_Witness ==
    /\ last.op = "eraser-end"
    /\ last.res = "done"
    /\ last.sid \in DOMAIN sessions
    /\ Len(last.before) = 1
    /\ sessions[last.sid].drawings = Append(last.before, "d1")
    /\ sessions[last.sid].fileUrl # Null
    /\ Delivered # {}

\* C19: the disconnect of a socket changes the consultant slot of a session
\* only if the slot holds that socket's id: once a second consultant has
\* taken the slot, the first one's disconnect leaves it to the second.
C19_DisconnectKeepsOthersSlot ==
    [][last'.op = "disconnect" =>
        \A sid \in DOMAIN sessions :
            sessions[sid].users.consultant # last'.conn
                => sessions'[sid].users.consultant = sessions[sid].users.consultant]_vars

\* The events whose relays the peer of socket d has received or is about to
\* receive, in the order of arrival: the sending socket and the event's number.
Arrivals(d) ==
    LET waiting == SelectSeq(net.inflight[d], LAMBDA m : m.from # Null)
    IN  net.heard[d] \o [i \in 1..Len(waiting) |->
                            [from |-> waiting[i].from, n |-> waiting[i].n]]

InSendOrder(tags) ==
    \A i, j \in DOMAIN tags :
        (i < j /\ tags[i].from = tags[j].from) => tags[i].n < tags[j].n

\* The strokes of one peer stand in a log in the order the peer sent them.
StrokesInSendOrder(log) ==
    \A i, j \in DOMAIN log, c \in Conns, n1, n2 \in 1..MaxSends :
        (i < j /\ log[i] = Stroke(c, n1) /\ log[j] = Stroke(c, n2)) => n1 < n2

\* The events of socket c that the server has handled.
Handled(c) == net.sent[c] - Len(net.wire[c])

\* C17: over connections that keep the order of what they carry, the events
\* of one socket take effect and are relayed in the order sent: every socket
\* receives the relays of one sender's events in the sender's order, no relay
\* and no stored stroke comes from an event the server has not handled yet,
\* and the strokes of one sender are stored in the order sent.
C17_SentOrderKept ==
    /\ \A d \in Conns :
        /\ InSendOrder(Arrivals(d))
        /\ \A i \in DOMAIN Arrivals(d) :
               Arrivals(d)[i].n <= Handled(Arrivals(d)[i].from)
    /\ \A sid \in DOMAIN sessions :
        /\ StrokesInSendOrder(sessions[sid].drawings)
        /\ \A c \in Conns, n \in 1..MaxSends :
               (\E i \in DOMAIN sessions[sid].drawings :
                    sessions[sid].drawings[i] = Stroke(c, n)) => n <= Handled(c)

\* A socket has received the relays of two events of the other socket, the
\* first one first, and the stroke of the first is stored.
C17_Witness ==
    \E c, d \in DOMAIN sockets :
        /\ c # d
        /\ net.heard[d] = <<[from |-> c, n |-> 1], [from |-> c, n |-> 2]>>
        /\ sessions["s1"].drawings = <<Stroke(c, 1)>>

\* No event is on a wire and no message waits to be received.
Quiescent == \A c \in Conns : net.wire[c] = << >> /\ net.inflight[c] = << >>

\* C20: whenever nothing is in flight, the drawings log of every connected
\* peer that joined a session as customer, and so began from a session-state,
\* equals the drawings stored for the session.  (The claim says it of every
\* participant; the customers are enough to decide it.)
C20_ReplicasConverge ==
    Quiescent =>
        \A c \in DOMAIN sockets :
            (sockets[c].sessionId \in DOMAIN sessions /\ sockets[c].role = "customer")
                => net.replica[c] = sessions[sockets[c].sessionId].drawings

====
